---- MODULE Spec2Model ----
(***************************************************************************)
(* Allocators of the ArceOS tree:                                          *)
(*   - EarlyAllocator  (modules/bump_allocator): bytes forward, pages      *)
(*     backward, one shared region;                                        *)
(*   - BumpAllocator / LabByteAllocator (labs/lab_allocator): head/tail    *)
(*     bump data pool behind an alignment router, with a TLSF meta pool.   *)
(* Addresses and sizes are usize values.  usize is modelled with          *)
(* UsizeBits bits; every `+`, `-`, `*` and `<<` of the source that is not  *)
(* a checked_* call either panics (overflow-checks on, the debug profile)  *)
(* or wraps modulo 2^UsizeBits (overflow-checks off, the release profile). *)
(***************************************************************************)
EXTENDS Integers, Naturals, Sequences, FiniteSets, TLC

\* ------------------------------------------------------------------ bounds
\* width of usize in the model (64 in the kernel)
UsizeBits == 28
\* cap on EarlyAllocator.b_count
MaxBCount == 3
\* cap on the byte allocations made between two resets of b_pos
MaxBumps == 4
\* cap on EarlyAllocator::used_pages(): pages are never given back
MaxUsedPages == 3
\* cap on BumpAllocator.counts (more than one CYCLE)
MaxCounts == 16
\* cap on the number of live blocks of the meta pool
MaxMetaBlocks == 1
\* width of the SimpleHasher state (u128 in the source), an even number
HasherBits == 16

\* ------------------------------------------------------- program constants
PAGE_SIZE == 4096
MAX_SIZE == 131665920
CYCLE == 15
META_SIZE == 262144
META_ALIGN == 8
RESET_SIZE == 384

\* ------------------------------------------------------------ usize helpers
Usize == 2 ^ UsizeBits
UsizeMax == Usize - 1
IsizeMax == 2 ^ (UsizeBits - 1) - 1

\* x & !(align - 1), align a power of two
MaskDown(x, align) == x - (x % align)

\* core::alloc::Layout: align is a power of two and size, rounded up to
\* align, does not exceed isize::MAX
IsLayout(size, align) ==
    /\ align \in {2 ^ k : k \in 0..(UsizeBits - 1)}
    /\ size <= IsizeMax - (align - 1)

\* the result of one call: the allocator after it, how it ended, the address
\* and, for the data pool, the zone that served it
Out(self, status, addr) ==
    [self |-> self, status |-> status, addr |-> addr, zone |-> "none"]

In(zone, out) == [out EXCEPT !.zone = zone]

Errors == {"NoMemory", "MemoryOverlap"}

\* ----------------------------------------------------------- EarlyAllocator
Early_new == [start |-> 0, end |-> 0, b_pos |-> 0, p_pos |-> 0, b_count |-> 0]

\* init: start + size is an unchecked add; b_count is not written
Early_init(self, start, size, checks) ==
    IF start + size > UsizeMax /\ checks
    THEN Out(self, "panic", 0)
    ELSE Out([self EXCEPT !.start = start,
                          !.b_pos = start,
                          !.end   = (start + size) % Usize,
                          !.p_pos = (start + size) % Usize], "Ok", 0)

Early_add_memory(self, start, size) == Out(self, "NoMemory", 0)

\* mutant: b_count is incremented before the overlap check
Early_alloc_counts_first(self, size, align, checks) ==
    IF self.b_pos + align > UsizeMax /\ checks
    THEN Out(self, "panic", 0)
    ELSE LET alloc_start == MaskDown((self.b_pos + align - 1) % Usize, align)
             alloc_end   == alloc_start + size
             counted     == [self EXCEPT !.b_count = self.b_count + 1]
         IN  IF alloc_end > UsizeMax
             THEN Out(self, "NoMemory", 0)
             ELSE IF alloc_end > self.p_pos
             THEN Out(counted, "MemoryOverlap", 0)
             ELSE Out([counted EXCEPT !.b_pos = alloc_end], "Ok", alloc_start)

\* alloc: (b_pos + align - 1) & !(align - 1) is unchecked, alloc_start + size
\* is a checked_add
Early_alloc(self, size, align, checks) ==
    IF self.b_pos + align > UsizeMax /\ checks
    THEN Out(self, "panic", 0)
    ELSE LET alloc_start == MaskDown((self.b_pos + align - 1) % Usize, align)
             alloc_end   == alloc_start + size
         IN  IF alloc_end > UsizeMax
             THEN Out(self, "NoMemory", 0)
             ELSE IF alloc_end > self.p_pos
             THEN Out(self, "MemoryOverlap", 0)
             ELSE Out([self EXCEPT !.b_pos = alloc_end,
                                   !.b_count = self.b_count + 1],
                      "Ok", alloc_start)

\* mutant: every dealloc gives the byte area back
Early_dealloc_reclaims_always(self, pos, size, align) ==
    IF self.b_count = 0
    THEN Out(self, "Ok", 0)
    ELSE Out([self EXCEPT !.b_count = self.b_count - 1, !.b_pos = self.start],
             "Ok", 0)

Early_dealloc(self, pos, size, align) ==
    IF self.b_count = 0
    THEN Out(self, "Ok", 0)
    ELSE LET c == self.b_count - 1
         IN  Out([self EXCEPT !.b_count = c,
                              !.b_pos = IF c = 0 THEN self.start ELSE self.b_pos],
                 "Ok", 0)

\* the accessors subtract unchecked
Early_total_bytes(self) == (self.end - self.start) % Usize
Early_used_bytes(self) == (self.b_pos - self.start) % Usize
Early_available_bytes(self) == (self.p_pos - self.b_pos) % Usize

\* alloc_pages: 1 << align_pow2 and num_pages * PAGE_SIZE are unchecked,
\* p_pos - size is a checked_sub
Early_alloc_pages(self, num_pages, align_pow2, checks) ==
    IF (align_pow2 >= UsizeBits \/ num_pages * PAGE_SIZE > UsizeMax) /\ checks
    THEN Out(self, "panic", 0)
    ELSE LET align == 2 ^ (align_pow2 % UsizeBits)
             size  == (num_pages * PAGE_SIZE) % Usize
             alloc_end == self.p_pos
         IN  IF size > alloc_end
             THEN Out(self, "NoMemory", 0)
             ELSE LET alloc_start == MaskDown(alloc_end - size, align)
                  IN  IF alloc_start < self.b_pos
                      THEN Out(self, "MemoryOverlap", 0)
                      ELSE Out([self EXCEPT !.p_pos = alloc_start],
                               "Ok", alloc_start)

Early_dealloc_pages(self, pos, num_pages) == Out(self, "Ok", 0)

Early_total_pages(self) == ((self.end - self.start) % Usize) \div PAGE_SIZE
Early_used_pages(self) == ((self.end - self.p_pos) % Usize) \div PAGE_SIZE
Early_available_pages(self) == ((self.p_pos - self.b_pos) % Usize) \div PAGE_SIZE

\* ------------------------------------------------------------ BumpAllocator
Bump_new == [start |-> 0, end |-> 0, head |-> 0, tail |-> 0, counts |-> 0]

\* init: start + size is an unchecked add; counts is not written
Bump_init(self, start, size, checks) ==
    IF start + size > UsizeMax /\ checks
    THEN Out(self, "panic", 0)
    ELSE Out([self EXCEPT !.start = start,
                          !.end   = (start + size) % Usize,
                          !.head  = start,
                          !.tail  = (start + size) % Usize], "Ok", 0)

\* mutant: head is committed before the check against tail
Bump_alloc_head_commits_first(self, size, align, checks) ==
    In("head",
       IF self.head + size > UsizeMax /\ checks
       THEN Out(self, "panic", 0)
       ELSE LET next_head == (self.head + size) % Usize
                moved == [self EXCEPT !.head = next_head]
            IN  IF self.tail < next_head
                THEN Out(moved, "NoMemory", 0)
                ELSE Out(moved, "Ok", (next_head - size) % Usize))

\* alloc_head: head + size is an unchecked add, the align is not used
Bump_alloc_head(self, size, align, checks) ==
    In("head",
       IF self.head + size > UsizeMax /\ checks
       THEN Out(self, "panic", 0)
       ELSE LET next_head == (self.head + size) % Usize
            IN  IF self.tail < next_head
                THEN Out(self, "NoMemory", 0)
                ELSE Out([self EXCEPT !.head = next_head],
                         "Ok", (next_head - size) % Usize))

\* alloc_tail: end - size is an unchecked sub, taken from end and not from
\* tail; the align is not used
Bump_alloc_tail(self, size, align, checks) ==
    In("tail",
       IF size > self.end /\ checks
       THEN Out(self, "panic", 0)
       ELSE LET next_tail == (self.end - size) % Usize
            IN  IF next_tail < self.head
                THEN Out(self, "NoMemory", 0)
                ELSE Out([self EXCEPT !.tail = next_tail], "Ok", next_tail))

\* mutant: plain alternation, the cycle is forgotten
Bump_zone_no_cycle(counts) == IF (counts - 1) % 2 = 0 THEN "tail" ELSE "head"

\* the zone alloc picks once counts has been incremented
Bump_zone(counts) == IF ((counts - 1) % CYCLE) % 2 = 0 THEN "tail" ELSE "head"

Bump_alloc(self, size, align, checks) ==
    LET counted == [self EXCEPT !.counts = self.counts + 1]
    IN  IF Bump_zone(counted.counts) = "tail"
        THEN Bump_alloc_tail(counted, size, align, checks)
        ELSE Bump_alloc_head(counted, size, align, checks)

Bump_reset_tail(self) == [self EXCEPT !.tail = self.end]

Bump_used_bytes(self) ==
    (((self.head - self.start) % Usize) + ((self.end - self.tail) % Usize)) % Usize

Bump_total_bytes(self) == (self.end - self.start) % Usize

\* ------------------------------------------------- TlsfByteAllocator (opaque)
\* The meta pool is the external TLSF allocator; only its byte accounting is
\* kept: the range it was given and the sizes of the live blocks.
RECURSIVE SumSeq(_)
SumSeq(q) == IF q = <<>> THEN 0 ELSE Head(q) + SumSeq(Tail(q))

\* q without its first element equal to x
RECURSIVE RemoveFirst(_, _)
RemoveFirst(q, x) ==
    IF q = <<>> THEN <<>>
    ELSE IF Head(q) = x THEN Tail(q)
    ELSE <<Head(q)>> \o RemoveFirst(Tail(q), x)

Tlsf_new == [start |-> 0, total |-> 0, live |-> <<>>]

Tlsf_init(self, start, size) ==
    [self EXCEPT !.start = start, !.total = size, !.live = <<>>]

Tlsf_used_bytes(self) == SumSeq(self.live)

Tlsf_alloc(self, size, align) ==
    IF Tlsf_used_bytes(self) + size > self.total
    THEN Out(self, "NoMemory", 0)
    ELSE Out([self EXCEPT !.live = Append(self.live, size)],
             "Ok", self.start + Tlsf_used_bytes(self))

Tlsf_dealloc(self, size, align) ==
    [self EXCEPT !.live = RemoveFirst(self.live, size)]

\* --------------------------------------------------------- LabByteAllocator
Lab_new == [meta_pool |-> Tlsf_new, data_pool |-> Bump_new]

\* init: the size argument is not used; start + meta_size is an unchecked add
Lab_init(self, start, size, checks) ==
    IF start + META_SIZE > UsizeMax /\ checks
    THEN Out(self, "panic", 0)
    ELSE LET meta == Tlsf_init(self.meta_pool, start, META_SIZE)
             data == Bump_init(self.data_pool, (start + META_SIZE) % Usize,
                               MAX_SIZE - META_SIZE, checks)
         IN  Out([meta_pool |-> meta, data_pool |-> data.self], data.status, 0)

\* add_memory is unimplemented!()
Lab_add_memory(self, start, size) == Out(self, "panic", 0)

\* mutant: every align up to 8 is routed to the meta pool
Lab_alloc_routes_small_aligns(self, size, align, checks) ==
    IF align <= META_ALIGN
    THEN LET r == Tlsf_alloc(self.meta_pool, size, align)
         IN  In("meta", Out([self EXCEPT !.meta_pool = r.self], r.status, r.addr))
    ELSE LET r == Bump_alloc(self.data_pool, size, align, checks)
         IN  In(r.zone, Out([self EXCEPT !.data_pool = r.self], r.status, r.addr))

Lab_alloc(self, size, align, checks) ==
    IF align = META_ALIGN
    THEN LET r == Tlsf_alloc(self.meta_pool, size, align)
         IN  In("meta", Out([self EXCEPT !.meta_pool = r.self], r.status, r.addr))
    ELSE LET r == Bump_alloc(self.data_pool, size, align, checks)
         IN  In(r.zone, Out([self EXCEPT !.data_pool = r.self], r.status, r.addr))

\* mutant: every meta free resets the tail
Lab_dealloc_resets_always(self, size, align) ==
    IF align = META_ALIGN
    THEN Out([meta_pool |-> Tlsf_dealloc(self.meta_pool, size, align),
              data_pool |-> Bump_reset_tail(self.data_pool)], "Ok", 0)
    ELSE Out(self, "Ok", 0)

Lab_dealloc(self, size, align) ==
    IF align = META_ALIGN
    THEN LET meta == Tlsf_dealloc(self.meta_pool, size, align)
         IN  IF size = RESET_SIZE
             THEN Out([meta_pool |-> meta,
                       data_pool |-> Bump_reset_tail(self.data_pool)], "Ok", 0)
             ELSE Out([self EXCEPT !.meta_pool = meta], "Ok", 0)
    ELSE Out(self, "Ok", 0)

Lab_total_bytes(self) == MAX_SIZE

\* used_bytes adds and available_bytes subtracts unchecked
Lab_used_bytes(self) ==
    (Tlsf_used_bytes(self.meta_pool) + Bump_used_bytes(self.data_pool)) % Usize

Lab_available_bytes(self) == (MAX_SIZE - Lab_used_bytes(self)) % Usize

\* ---------------------------------------------------------------- the state
\* ------------------------------------------------------ SimpleHasher, HashMap
HasherWidth == 2 ^ HasherBits

RECURSIVE Xor(_, _)
Xor(a, b) ==
    IF a = 0 THEN b
    ELSE IF b = 0 THEN a
    ELSE ((a + b) % 2) + 2 * Xor(a \div 2, b \div 2)

RotateLeft(x, n) ==
    LET k == n % HasherBits
    IN  ((x * (2 ^ k)) % HasherWidth) + (x \div (2 ^ (HasherBits - k)))

\* 0x9e3779b97f4a7c15 and 0x100000001b3, truncated to the hasher's width (their
\* low 32 bits are 0x7f4a7c15 and 0x1b3)
HASH_ADD == 2135587861 % HasherWidth
HASH_MUL == 435 % HasherWidth

RECURSIVE SimpleHasher_write(_, _)
SimpleHasher_write(state, bytes) ==
    IF bytes = <<>> THEN state
    ELSE LET b == Head(bytes)
             x == Xor(state, RotateLeft((b + HASH_ADD) % HasherWidth, 11))
         IN  SimpleHasher_write((x * HASH_MUL) % HasherWidth, Tail(bytes))

\* the low half xor the high half
SimpleHasher_finish(state) ==
    LET half == 2 ^ (HasherBits \div 2)
    IN  Xor(state % half, state \div half)

\* a u8 key hashes as its one byte
HashKey(hash_salt, key) == SimpleHasher_finish(SimpleHasher_write(hash_salt, <<key>>))

HashMap_with_capacity(cap, salt) ==
    [items |-> [i \in 1..cap |-> <<>>], hash_salt |-> salt, size |-> 0]

HashMap_new(salt) == HashMap_with_capacity(16, salt)

\* the bucket index, counted from 0
HashMap_hash(self, key) == HashKey(self.hash_salt, key) % Len(self.items)

HashMap_iter(self) ==
    LET RECURSIVE Flat(_)
        Flat(i) == IF i > Len(self.items) THEN <<>> ELSE self.items[i] \o Flat(i + 1)
    IN  Flat(1)

RECURSIVE PushAll(_, _, _)
PushAll(new_items, entries, salt) ==
    IF entries = <<>> THEN new_items
    ELSE LET idx == HashKey(salt, Head(entries)[1]) % Len(new_items)
         IN  PushAll([new_items EXCEPT ![idx + 1] = Append(@, Head(entries))],
                     Tail(entries), salt)

HashMap_resize(self) ==
    LET new_cap == Len(self.items) * 2
    IN  [self EXCEPT !.items = PushAll([i \in 1..new_cap |-> <<>>],
                                       HashMap_iter(self), self.hash_salt)]

HashMap_insert(self, key, value) ==
    LET m == IF self.size * 4 >= Len(self.items) * 3 THEN HashMap_resize(self) ELSE self
        idx == HashMap_hash(m, key)
    IN  \* the remainder by items.len() = 0 panics in every build profile
        IF Len(m.items) = 0 THEN Out(m, "panic", 0)
        ELSE LET bucket == m.items[idx + 1]
                 found == {i \in DOMAIN bucket : bucket[i][1] = key}
             IN  IF found # {}
                 THEN LET i == CHOOSE j \in found : \A h \in found : j <= h
                      IN  Out([m EXCEPT !.items[idx + 1][i] = <<key, value>>], "Ok", 0)
                 ELSE Out([m EXCEPT !.items[idx + 1] = Append(@, <<key, value>>),
                                    !.size = @ + 1], "Ok", 0)

VARIABLES
    overflow_checks,  \* the build profile: TRUE panics on overflow, FALSE wraps
    allocator,        \* the allocator this kernel is built with
    inited,           \* init has been called
    panicked,         \* the kernel has panicked (it halts)
    early,            \* the EarlyAllocator
    lab,              \* the LabByteAllocator with its two pools
    bumps,            \* byte allocations granted since b_pos was last set to start
    alloc_calls,      \* number of BumpAllocator::alloc calls since construction
    record_ranges,    \* whether this run records the ranges handed out
    map,              \* the HashMap<u8, _>
    inserted,         \* the value last inserted under each key
    granted,          \* the non-empty address ranges handed out, as <<address, bytes>>
    prev,             \* the allocators and the ranges as they were before the last call
    ret               \* the last call and what it returned

vars == <<overflow_checks, allocator, inited, panicked, early, lab, bumps, alloc_calls,
          record_ranges, granted, prev, ret,
          map, inserted>>

Ret(op, status, addr, size, align, zone) ==
    [op |-> op, status |-> status, addr |-> addr, size |-> size,
     align |-> align, zone |-> zone]

\* ------------------------------------------------------------------- inputs
\* regions given to EarlyAllocator::init: a low two-page one and one in the
\* upper half of the address space
EarlyRegions == {<<4096, 8192>>, <<Usize - 12288, 8192>>}
\* (size, align) of the byte requests: empty, small, ordinary with a round-up,
\* larger than any region, and one with a large alignment
EarlyLayouts == {l \in {<<0, 1>>, <<16, 8>>, <<1000, 16>>, <<IsizeMax, 1>>, <<1000, 16384>>} :
                    IsLayout(l[1], l[2])}
\* (num_pages, align_pow2) of the page requests
EarlyPages == {<<0, 0>>, <<1, 0>>, <<1, 13>>, <<4, 0>>,
               <<Usize \div PAGE_SIZE + 1, 0>>, <<1, UsizeBits>>}
\* dealloc does not read its arguments
EarlyFrees == {<<0, 0, 1>>, <<4096, 1000, 16>>}

\* start addresses given to LabByteAllocator::init: low, and upper half
LabStarts == {4096, Usize - MAX_SIZE - 4096}
\* (size, align) of the requests: data (empty, two fit in the pool, larger
\* than the pool) and meta (the bulk-reset size, another, larger than the pool)
DataLayouts == {<<0, 1>>, <<50331648, 16>>, <<IsizeMax, 1>>}
MetaLayouts == {<<RESET_SIZE, META_ALIGN>>, <<32, META_ALIGN>>,
                <<META_SIZE + 8, META_ALIGN>>}
LabLayouts == {l \in DataLayouts \cup MetaLayouts : IsLayout(l[1], l[2])}

\* the ranges handed out: bytes since b_pos was last set to start, pages since
\* init, head-placed since init, tail-placed since the last reset_tail
NoneGranted == [bytes |-> {}, pages |-> {}, heads |-> {}, tails |-> {}]
Grant(set, addr, len) == IF len > 0 THEN set \cup {<<addr, len>>} ELSE set

Constructed ==
    /\ overflow_checks \in BOOLEAN
    /\ allocator \in {"early", "lab"}
    /\ inited = FALSE
    /\ panicked = FALSE
    /\ early = Early_new
    /\ lab = Lab_new
    /\ bumps = 0
    /\ alloc_calls = 0
    /\ granted = NoneGranted
    /\ prev = [early |-> Early_new, lab |-> Lab_new, granted |-> NoneGranted]
    /\ ret = Ret("new", "Ok", 0, 0, 0, "none")

\* the allocator runs carry an untouched empty map
NoMap == map = HashMap_with_capacity(0, 0) /\ inserted = <<>>

Init == Constructed /\ record_ranges = FALSE /\ NoMap

Running(a) == allocator = a /\ ~panicked

\* ---------------------------------------------------- EarlyAllocator actions
EarlyCommit(out, r) ==
    /\ early' = out.self
    /\ panicked' = (out.status = "panic")
    /\ ret' = r
    /\ prev' = [early |-> early, lab |-> lab, granted |-> granted]
    /\ granted' =
          IF ~record_ranges \/ r.status # "Ok" THEN granted
          ELSE IF r.op = "init" THEN NoneGranted
          ELSE IF r.op = "alloc"
               THEN [granted EXCEPT !.bytes = Grant(@, r.addr, r.size)]
          ELSE IF r.op = "alloc_pages"
               THEN [granted EXCEPT !.pages = Grant(@, r.addr, r.size * PAGE_SIZE)]
          ELSE IF r.op = "dealloc" /\ early.b_count > 0 /\ out.self.b_count = 0
               THEN [granted EXCEPT !.bytes = {}]
          ELSE granted
    /\ bumps' = IF r.op = "alloc" /\ r.status = "Ok" THEN bumps + 1
                ELSE IF out.self.b_pos = out.self.start /\ r.op \in {"init", "dealloc"} THEN 0
                ELSE bumps
    /\ UNCHANGED <<overflow_checks, allocator, lab, alloc_calls, record_ranges, map, inserted>>

EarlyInit(start, size) ==
    /\ Running("early")
    /\ LET out == Early_init(early, start, size, overflow_checks)
       IN  /\ EarlyCommit(out, Ret("init", out.status, 0, size, 0, "none"))
           /\ inited' = (out.status = "Ok" \/ inited)

EarlyAlloc(size, align) ==
    /\ Running("early") /\ inited
    /\ early.b_count < MaxBCount /\ bumps < MaxBumps
    /\ LET out == Early_alloc(early, size, align, overflow_checks)
       IN  EarlyCommit(out, Ret("alloc", out.status, out.addr, size, align, "bytes"))
    /\ UNCHANGED inited

EarlyDealloc(pos, size, align) ==
    /\ Running("early") /\ inited
    /\ LET out == Early_dealloc(early, pos, size, align)
       IN  EarlyCommit(out, Ret("dealloc", out.status, pos, size, align, "bytes"))
    /\ UNCHANGED inited

EarlyAllocPages(num_pages, align_pow2) ==
    /\ Running("early") /\ inited
    /\ Early_used_pages(early) < MaxUsedPages
    /\ LET out == Early_alloc_pages(early, num_pages, align_pow2, overflow_checks)
       IN  EarlyCommit(out, Ret("alloc_pages", out.status, out.addr,
                                num_pages, align_pow2, "pages"))
    /\ UNCHANGED inited

EarlyDeallocPages(pos, num_pages) ==
    /\ Running("early") /\ inited
    /\ LET out == Early_dealloc_pages(early, pos, num_pages)
       IN  EarlyCommit(out, Ret("dealloc_pages", out.status, pos, num_pages, 0, "pages"))
    /\ UNCHANGED inited

EarlyAddMemory(start, size) ==
    /\ Running("early") /\ inited
    /\ LET out == Early_add_memory(early, start, size)
       IN  EarlyCommit(out, Ret("add_memory", out.status, start, size, 0, "none"))
    /\ UNCHANGED inited

\* -------------------------------------------------- LabByteAllocator actions
LabCommit(out, r) ==
    /\ lab' = out.self
    /\ panicked' = (out.status = "panic")
    /\ ret' = r
    /\ prev' = [early |-> early, lab |-> lab, granted |-> granted]
    /\ granted' =
          IF ~record_ranges \/ r.status # "Ok" THEN granted
          ELSE IF r.op = "init" THEN NoneGranted
          ELSE IF r.op = "alloc" /\ r.zone = "head"
               THEN [granted EXCEPT !.heads = Grant(@, r.addr, r.size)]
          ELSE IF r.op = "alloc" /\ r.zone = "tail"
               THEN [granted EXCEPT !.tails = Grant(@, r.addr, r.size)]
          ELSE IF r.op = "dealloc" /\ r.align = META_ALIGN /\ r.size = RESET_SIZE
               THEN [granted EXCEPT !.tails = {}]
          ELSE granted
    /\ UNCHANGED <<overflow_checks, allocator, early, bumps, record_ranges, map, inserted>>

LabInit(start, size) ==
    /\ Running("lab") /\ ~inited
    /\ LET out == Lab_init(lab, start, size, overflow_checks)
       IN  /\ LabCommit(out, Ret("init", out.status, 0, size, 0, "none"))
           /\ inited' = (out.status = "Ok")
    /\ UNCHANGED alloc_calls

LabAlloc(size, align) ==
    /\ Running("lab") /\ inited
    /\ IF align = META_ALIGN
       THEN Len(lab.meta_pool.live) < MaxMetaBlocks
       ELSE lab.data_pool.counts < MaxCounts
    /\ LET out == Lab_alloc(lab, size, align, overflow_checks)
       IN  LabCommit(out, Ret("alloc", out.status, out.addr, size, align, out.zone))
    /\ alloc_calls' = IF align = META_ALIGN THEN alloc_calls ELSE alloc_calls + 1
    /\ UNCHANGED inited

\* a block is freed with the layout it was allocated with: a meta free needs
\* a live meta block of that size
LabDealloc(size, align) ==
    /\ Running("lab") /\ inited
    /\ align = META_ALIGN => \E i \in DOMAIN lab.meta_pool.live : lab.meta_pool.live[i] = size
    /\ LET out == Lab_dealloc(lab, size, align)
       IN  LabCommit(out, Ret("dealloc", out.status, 0, size, align,
                              IF align = META_ALIGN THEN "meta" ELSE "data"))
    /\ UNCHANGED <<inited, alloc_calls>>

LabAddMemory(start, size) ==
    /\ Running("lab") /\ inited
    /\ LET out == Lab_add_memory(lab, start, size)
       IN  LabCommit(out, Ret("add_memory", out.status, start, size, 0, "none"))
    /\ UNCHANGED <<inited, alloc_calls>>

Next ==
    \/ \E r \in EarlyRegions : EarlyInit(r[1], r[2])
    \/ \E l \in EarlyLayouts : EarlyAlloc(l[1], l[2])
    \/ \E f \in EarlyFrees : EarlyDealloc(f[1], f[2], f[3])
    \/ \E q \in EarlyPages : EarlyAllocPages(q[1], q[2])
    \/ \E n \in {1} : EarlyDeallocPages(early.p_pos, n)
    \/ \E r \in {<<32768, 4096>>} : EarlyAddMemory(r[1], r[2])
    \/ \E s \in LabStarts : LabInit(s, MAX_SIZE)
    \/ \E l \in LabLayouts : LabAlloc(l[1], l[2])
    \/ \E l \in LabLayouts : LabDealloc(l[1], l[2])
    \/ \E r \in {<<32768, 4096>>} : LabAddMemory(r[1], r[2])

Spec == Init /\ [][Next]_vars

\* the same program, with the ranges it hands out recorded
InitRanges == Constructed /\ record_ranges = TRUE /\ NoMap
SpecRanges == InitRanges /\ [][Next]_vars

\* ------------------------------------------------------------ HashMap actions
\* capacities given to with_capacity (16 is new()), salts drawn by random(),
\* keys and values
MapCaps == {0, 1, 16}
MapSalts == {0, 4660}
MapKeys == {0, 1, 2, 16, 255}
MapValues == {1, 2}

InitMap ==
    /\ Constructed /\ record_ranges = FALSE
    /\ \E cap \in MapCaps, salt \in MapSalts : map = HashMap_with_capacity(cap, salt)
    /\ inserted = <<>>

MapInsert(key, value) ==
    /\ ~panicked
    /\ LET out == HashMap_insert(map, key, value)
       IN  /\ map' = out.self
           /\ panicked' = (out.status = "panic")
           /\ inserted' = IF out.status = "Ok"
                           THEN [k \in DOMAIN inserted \cup {key} |->
                                    IF k = key THEN value ELSE inserted[k]]
                           ELSE inserted
           /\ ret' = Ret("insert", out.status, 0, 0, 0, "none")
    /\ UNCHANGED <<overflow_checks, allocator, inited, early, lab, bumps, alloc_calls,
                   record_ranges, granted, prev>>

NextMap == \E key \in MapKeys, value \in MapValues : MapInsert(key, value)

SpecMap == InitMap /\ [][NextMap]_vars

\* ----------------------------------------------------------- type invariant
TypeOK ==
    /\ overflow_checks \in BOOLEAN
    /\ allocator \in {"early", "lab"}
    /\ panicked \in BOOLEAN
    /\ inited \in BOOLEAN
    /\ \A f \in {"start", "end", "b_pos", "p_pos"} : early[f] \in 0..UsizeMax
    /\ \A f \in {"start", "end", "head", "tail"} : lab.data_pool[f] \in 0..UsizeMax

\* ==================================================================== claims
IsEarly == allocator = "early" /\ inited
IsLab == allocator = "lab" /\ inited
Data == lab.data_pool

\* C1: in every state reachable from init by any sequence of EarlyAllocator
\* calls, start <= b_pos <= p_pos <= end.
C1_NonCrossing ==
    IsEarly => /\ early.start <= early.b_pos
               /\ early.b_pos <= early.p_pos
               /\ early.p_pos <= early.end

\* C2: in every state reachable from init by any sequence of BumpAllocator
\* alloc and reset_tail calls, start <= head <= tail <= end.
C2_HeadTail ==
    IsLab => /\ Data.start <= Data.head
             /\ Data.head <= Data.tail
             /\ Data.tail <= Data.end

\* C3: every address returned by a successful allocation lies in the owning
\* region with its whole size: start <= address and address + size <= end
\* (size = requested bytes, or num_pages * PAGE_SIZE for pages).
C3_Bounds ==
    /\ IsEarly /\ ret.op = "alloc" /\ ret.status = "Ok"
         => early.start <= ret.addr /\ ret.addr + ret.size <= early.end
    /\ IsEarly /\ ret.op = "alloc_pages" /\ ret.status = "Ok"
         => early.start <= ret.addr /\ ret.addr + ret.size * PAGE_SIZE <= early.end
    /\ IsLab /\ ret.op = "alloc" /\ ret.zone \in {"head", "tail"} /\ ret.status = "Ok"
         => Data.start <= ret.addr /\ ret.addr + ret.size <= Data.end

\* C4: a dealloc that leaves b_count > 0 leaves b_pos, used_bytes() and
\* available_bytes() unchanged, whatever address it is given; the dealloc
\* that brings b_count to 0 sets b_pos = start, so used_bytes() = 0; a
\* dealloc with b_count = 0 changes nothing.
C4_Reclaim ==
    IsEarly /\ ret.op = "dealloc" =>
        /\ prev.early.b_count = 0 => early = prev.early
        /\ prev.early.b_count > 0 => early.b_count = prev.early.b_count - 1
        /\ prev.early.b_count > 0 /\ early.b_count > 0 =>
              /\ early.b_pos = prev.early.b_pos
              /\ Early_used_bytes(early) = Early_used_bytes(prev.early)
              /\ Early_available_bytes(early) = Early_available_bytes(prev.early)
        /\ prev.early.b_count > 0 /\ early.b_count = 0 =>
              /\ early.b_pos = early.start
              /\ Early_used_bytes(early) = 0

\* three allocations outstanding, one freed: the cursor stays where it was
C4_Witness ==
    /\ IsEarly /\ ret.op = "dealloc"
    /\ prev.early.b_count = 3 /\ early.b_count = 2
    /\ early.b_pos > early.start

\* C5: the k-th call of BumpAllocator::alloc since construction, failed calls
\* counted, is served from the tail iff ((k - 1) mod 15) mod 2 = 0 and from
\* the head otherwise, whatever reset_tail or dealloc calls came between; the
\* sequence counter never goes down.
C5_CyclePlacement ==
    /\ [](IsLab /\ ret.op = "alloc" /\ ret.zone # "meta" =>
            /\ ret.zone \in {"head", "tail"}
            /\ ret.zone = "tail" <=> ((alloc_calls - 1) % 15) % 2 = 0)
    /\ [][lab'.data_pool.counts >= lab.data_pool.counts]_vars

\* the 16th call, right after the 15th at the tail, is at the tail again
C5_Witness ==
    /\ IsLab /\ ret.op = "alloc" /\ alloc_calls = 16 /\ ret.zone = "tail"
    /\ ret.status = "Ok" /\ prev.lab.data_pool.tail = prev.lab.data_pool.end

\* C6: freeing a meta block (align 8) of size 0x180 sets the data pool's tail
\* to its end, wherever tail was, and leaves head and counts alone; a meta
\* free of another size leaves tail alone.
C6_BulkReset ==
    IsLab /\ ret.op = "dealloc" /\ ret.align = 8 =>
        /\ ret.size = 384 => Data.tail = Data.end
        /\ ret.size # 384 => Data.tail = prev.lab.data_pool.tail
        /\ Data.head = prev.lab.data_pool.head
        /\ Data.counts = prev.lab.data_pool.counts

\* the tail had moved before the 0x180 block was freed
C6_Witness ==
    /\ IsLab /\ ret.op = "dealloc" /\ ret.align = 8 /\ ret.size = 384
    /\ prev.lab.data_pool.tail < prev.lab.data_pool.end
    /\ Data.tail = Data.end

\* C7: LabByteAllocator::alloc with align 8 leaves the data pool (head, tail,
\* counts) unchanged; with any other align it leaves the meta pool unchanged.
C7_Routing ==
    IsLab /\ ret.op = "alloc" =>
        /\ ret.align = 8 => Data = prev.lab.data_pool
        /\ ret.align # 8 => lab.meta_pool = prev.lab.meta_pool

\* a meta request served while the data pool is in use
C7_Witness ==
    /\ IsLab /\ ret.op = "alloc" /\ ret.align = 8 /\ ret.status = "Ok"
    /\ lab.meta_pool # prev.lab.meta_pool
    /\ Data.head > Data.start /\ Data.tail < Data.end

\* C8: an EarlyAllocator alloc or alloc_pages that returns NoMemory or
\* MemoryOverlap leaves b_pos, p_pos and b_count as they were.
C8_EarlyFailureAtomic ==
    IsEarly /\ ret.op \in {"alloc", "alloc_pages"} /\ ret.status \in Errors =>
        /\ early.b_pos = prev.early.b_pos
        /\ early.p_pos = prev.early.p_pos
        /\ early.b_count = prev.early.b_count

\* a byte request refused for overlap with allocations outstanding
C8_Witness ==
    /\ IsEarly /\ ret.op = "alloc" /\ ret.status = "MemoryOverlap"
    /\ early.b_count > 0 /\ early.b_pos > early.start

\* C9 (as stated): a BumpAllocator alloc that returns NoMemory leaves the
\* whole allocator (head, tail, sequence counter) as it was.
C9_WholeStateUnchanged ==
    IsLab /\ ret.op = "alloc" /\ ret.zone \in {"head", "tail"}
          /\ ret.status = "NoMemory" => Data = prev.lab.data_pool

\* C9 (amended): a BumpAllocator alloc that returns NoMemory leaves head and
\* tail (and the region) as they were and has advanced the sequence counter
\* by one.
C9_CursorsUnchanged ==
    IsLab /\ ret.op = "alloc" /\ ret.zone \in {"head", "tail"}
          /\ ret.status = "NoMemory" =>
        /\ Data.head = prev.lab.data_pool.head
        /\ Data.tail = prev.lab.data_pool.tail
        /\ Data.start = prev.lab.data_pool.start
        /\ Data.end = prev.lab.data_pool.end
        /\ Data.counts = prev.lab.data_pool.counts + 1

\* a head request refused while both zones are in use
C9_Witness ==
    /\ IsLab /\ ret.op = "alloc" /\ ret.zone = "head" /\ ret.status = "NoMemory"
    /\ Data.head > Data.start /\ Data.tail < Data.end

\* C10: a byte alloc with size > available_bytes() returns an error, and an
\* alloc_pages with num_pages > available_pages() returns an error, for
\* every alignment.
C10_Exhaustion ==
    /\ IsEarly /\ ret.op = "alloc" /\ ret.size > Early_available_bytes(prev.early)
         => ret.status \in Errors
    /\ IsEarly /\ ret.op = "alloc_pages"
               /\ ret.size > Early_available_pages(prev.early)
         => ret.status \in Errors

\* C11: a LabByteAllocator alloc whose size exceeds available_bytes()
\* (MAX_SIZE - meta used - (head - start) - (end - tail)) returns NoMemory,
\* for meta requests and for head- and tail-placed data requests.
C11_CompositeExhaustion ==
    IsLab /\ ret.op = "alloc" /\ ret.size > Lab_available_bytes(prev.lab)
        => ret.status = "NoMemory"

\* C12: a successful tail-placed allocation of size s returns end - s and
\* sets tail to it, whatever tail was; a tail-placed allocation returns
\* NoMemory exactly when end - s < head.
C12_TailOverlapLaw ==
    IsLab /\ ret.op = "alloc" /\ ret.zone = "tail" =>
        /\ ret.status = "NoMemory" <=>
               prev.lab.data_pool.end - ret.size < prev.lab.data_pool.head
        /\ ret.status = "Ok" =>
               /\ ret.addr = prev.lab.data_pool.end - ret.size
               /\ Data.tail = ret.addr

\* C13: a successful alloc_pages(num_pages, align_pow2) returns a multiple of
\* 2^align_pow2, below the region end when num_pages >= 1, with
\* address + num_pages * PAGE_SIZE <= the p_pos before the call; p_pos is the
\* returned address afterwards.
C13_PageAlignment ==
    IsEarly /\ ret.op = "alloc_pages" /\ ret.status = "Ok" =>
        /\ ret.addr % (2 ^ ret.align) = 0
        /\ ret.size >= 1 => ret.addr < early.end
        /\ ret.addr + ret.size * PAGE_SIZE <= prev.early.p_pos
        /\ early.p_pos = ret.addr

\* C14: add_memory returns NoMemory on the EarlyAllocator and on the
\* LabByteAllocator, in any state, and leaves the allocator unchanged.
C14_AddMemoryUnsupported ==
    ret.op = "add_memory" =>
        /\ ret.status = "NoMemory"
        /\ early = prev.early
        /\ lab = prev.lab

\* C15: EarlyAllocator::init(start, size), called in any state, establishes
\* b_pos = start, p_pos = end = start + size and b_count = 0.
C15_InitEstablishes ==
    IsEarly /\ ret.op = "init" /\ ret.status = "Ok" =>
        /\ early.b_pos = early.start
        /\ early.p_pos = early.end
        /\ early.end = early.start + ret.size
        /\ early.b_count = 0

\* C16: EarlyAllocator::alloc(size, align), with a = b_pos rounded up to
\* align: NoMemory iff the round-up or a + size overflows usize;
\* MemoryOverlap iff no overflow and a + size > p_pos; otherwise it returns
\* a, sets b_pos = a + size and increments b_count by one.
C16_AllocOutcome ==
    IsEarly /\ ret.op = "alloc" =>
        LET before == prev.early
            a == MaskDown(before.b_pos + ret.align - 1, ret.align)
            overflow == a + ret.size > UsizeMax
            overlap == ~overflow /\ a + ret.size > before.p_pos
        IN  /\ ret.status = "NoMemory" <=> overflow
            /\ ret.status = "MemoryOverlap" <=> overlap
            /\ ~overflow /\ ~overlap =>
                  /\ ret.status = "Ok" /\ ret.addr = a
                  /\ a % ret.align = 0 /\ a >= before.b_pos
                  /\ early.b_pos = a + ret.size
                  /\ early.b_count = before.b_count + 1

\* C17: head never decreases, whatever the operation; tail never increases
\* except by reset_tail (the free of a 0x180 meta block).
C17_CursorMonotonicity ==
    [][IsLab /\ IsLab' =>
         /\ lab'.data_pool.head >= lab.data_pool.head
         /\ lab'.data_pool.tail > lab.data_pool.tail =>
               ret'.op = "dealloc" /\ ret'.align = 8 /\ ret'.size = 384]_vars

Overlap(r, q) == r[1] < q[1] + q[2] /\ q[1] < r[1] + r[2]
\* the range the last call returned, if it is a non-empty one
Returned(op, zone) ==
    IF ret.op = op /\ ret.zone = zone /\ ret.status = "Ok"
    THEN Grant({}, ret.addr, IF op = "alloc_pages" THEN ret.size * PAGE_SIZE ELSE ret.size)
    ELSE {}

\* C18: a non-empty byte range returned by alloc since b_pos was last reset to
\* start overlaps no page range ever returned by alloc_pages (before or after
\* it) and no other byte range returned since that reset, and the page ranges
\* returned by alloc_pages are pairwise disjoint.
C18_Isolation ==
    IsEarly =>
        /\ \A r \in Returned("alloc", "bytes") :
               \A q \in prev.granted.bytes \cup prev.granted.pages : ~Overlap(r, q)
        /\ \A r \in Returned("alloc_pages", "pages") :
               \A q \in prev.granted.bytes \cup prev.granted.pages : ~Overlap(r, q)

\* C19: no non-empty range returned by a head-placed allocation overlaps a
\* range returned by a tail-placed allocation made since the most recent
\* reset_tail (or since init), and head-placed ranges are pairwise disjoint.
C19_HeadTailIsolation ==
    IsLab =>
        /\ \A r \in Returned("alloc", "head") :
               \A q \in prev.granted.heads \cup prev.granted.tails : ~Overlap(r, q)
        /\ \A r \in Returned("alloc", "tail") :
               \A q \in prev.granted.heads : ~Overlap(r, q)

\* C20: for a map made by new() or with_capacity(cap), cap >= 0, every insert
\* completes, iter() yields exactly one entry per distinct inserted key with
\* the value of the most recent insert for that key, and size is the number
\* of distinct keys.
C20_MapContents ==
    LET entries == HashMap_iter(map)
    IN  /\ ~panicked
        /\ Len(entries) = Cardinality(DOMAIN inserted)
        /\ {entries[i] : i \in DOMAIN entries} = {<<k, inserted[k]>> : k \in DOMAIN inserted}
        /\ map.size = Cardinality(DOMAIN inserted)


====
